---- MODULE Spec2Model ----
(***************************************************************************)
(* Model of py/metrics.py: the three group-fairness metrics                *)
(*   calculate_demographic_parity       (lines 9-36)                       *)
(*   calculate_equality_of_opportunity  (lines 38-92)                      *)
(*   calculate_predictive_rate_parity   (lines 94-141)                     *)
(*                                                                         *)
(* A behaviour is one call.  Init draws the arguments of the call; the     *)
(* actions are the statements of the called function, in program order.    *)
(* A DataFrame is a sequence of rows, a row a record of the four columns   *)
(* the code reads.  A Python float is modelled by the exact rational it    *)
(* approximates, kept in lowest terms as <<numerator, denominator>>.       *)
(***************************************************************************)
EXTENDS Integers, Sequences, FiniteSets, TLC

\* ------------------------------------------------------------------ bounds
\* longest list_of_dataframes / cohort_definition_ids drawn
MaxN == 2
\* rows drawn in total over the dataframes of one call
MaxRows == 2
\* largest men_total / women_total drawn (0 included)
MaxTotal == 2

\* ------------------------------------------------------- program constants
\* gender_concept_id of class 0 (men)
Men == 8507
\* gender_concept_id of class 1 (women)
Women == 8532

\* sample identifiers the inputs are drawn from
PersonIds == {1, 2}
CohortIds == {1, 2}

\* a row of dbo.results.disease_demographics: the cohort table's subject_id is
\* the person's person_id
Row(p, g, c) ==
  [person_id |-> p, subject_id |-> p, gender_concept_id |-> g,
   cohort_definition_id |-> c]

Rows == {Row(p, g, c) : p \in PersonIds, g \in {Men, Women}, c \in CohortIds}

VARIABLES
  fn,                     \* which function is called: "dp", "eo" or "prp"
  list_of_dataframes,     \* argument
  cohort_definition_ids,  \* argument ("eo", "prp")
  men_total, women_total, \* arguments ("dp")
  pc,                     \* position in the called function
  majority_count,         \* int(majority_count), lines 57 / 110
  all_sets, inds,         \* lines 59-64 / 112-117
  Y,                      \* lines 67-74 / 120-127
  full_df,                \* line 76 ("eo")
  idx,                    \* index of the phenotype the for loop is at
  diffs,                  \* the local list diffs
  ret                     \* how the call ended

vars == <<fn, list_of_dataframes, cohort_definition_ids, men_total, women_total,
          pc, majority_count, all_sets, inds, Y, full_df, idx, diffs, ret>>

\* ---------------------------------------------------------------- helpers
Min(a, b) == IF a <= b THEN a ELSE b
Abs(a) == IF a < 0 THEN -a ELSE a

RECURSIVE Gcd(_, _)
Gcd(a, b) == IF b = 0 THEN a ELSE Gcd(b, a % b)

\* the value n / d (d # 0) in lowest terms with a positive denominator
Norm(n, d) ==
  LET g == Gcd(Abs(n), Abs(d))
      s == IF d < 0 THEN -1 ELSE 1
  IN  <<(s * n) \div g, (s * d) \div g>>

\* a - b of two rationals: class_1 - class_0
RatSub(a, b) == Norm(a[1] * b[2] - b[1] * a[2], a[2] * b[2])

EmptyDict == [c \in {} |-> {}]

NoResult == [kind |-> "none", exc |-> "", val |-> <<>>]
Raised(e) == [kind |-> "error", exc |-> e, val |-> <<>>]
Returned(l) == [kind |-> "list", exc |-> "", val |-> l]

\* ------------------------------------------------------ DataFrame queries
\* len(phenotype[phenotype.gender_concept_id == g])
Count(df, g) ==
  Cardinality({k \in DOMAIN df : df[k].gender_concept_id = g})

\* len(phenotype[(phenotype.gender_concept_id == g) & (phenotype.person_id.isin(S))])
CountIn(df, g, S) ==
  Cardinality({k \in DOMAIN df :
                 df[k].gender_concept_id = g /\ df[k].person_id \in S})

\* set(df[df.cohort_definition_id == c].subject_id.unique())
SubjectSet(df, c) ==
  {df[k].subject_id : k \in {j \in DOMAIN df : df[j].cohort_definition_id = c}}

\* df[df.person_id.isin(S)]
RECURSIVE IsIn(_, _)
IsIn(df, S) ==
  IF df = <<>> THEN <<>>
  ELSE (IF Head(df).person_id \in S THEN <<Head(df)>> ELSE <<>>) \o IsIn(Tail(df), S)

\* pd.concat(frames)
RECURSIVE Concat(_)
Concat(frames) ==
  IF frames = <<>> THEN <<>> ELSE Head(frames) \o Concat(Tail(frames))

\* DataFrame.drop_duplicates(): the first occurrence of every row is kept
RECURSIVE DropDuplicates(_)
DropDuplicates(df) ==
  IF df = <<>> THEN <<>>
  ELSE LET init == DropDuplicates(SubSeq(df, 1, Len(df) - 1))
           last == df[Len(df)]
       IN  IF \E k \in DOMAIN init : init[k] = last THEN init
           ELSE Append(init, last)


\* ------------------------------------------------- names the module binds
\* lines 6-7: import numpy as np, import itertools; pandas is never imported
ModuleGlobals == {"np", "itertools"}

\* --------------------------------------------- majority-consensus builder
\* int(np.ceil(num_phenotypes / 2))
MajorityCount(n) == (n + 1) \div 2

\* zip(list_of_dataframes, cohort_definition_ids): stops at the shorter one
Zip(dfs, ids) == [j \in 1..Min(Len(dfs), Len(ids)) |-> <<dfs[j], ids[j]>>]

\* the dict all_sets after the loop: a later pair overwrites an equal key
AllSets(pairs) ==
  [c \in {pairs[j][2] : j \in DOMAIN pairs} |->
     LET last == CHOOSE j \in DOMAIN pairs :
                   /\ pairs[j][2] = c
                   /\ \A k \in DOMAIN pairs : pairs[k][2] = c => k <= j
     IN  SubjectSet(pairs[last][1], c)]

\* the list inds after the loop
Inds(pairs) == [j \in DOMAIN pairs |-> pairs[j][2]]

\* itertools.combinations(s, r): the r-length subsequences, in lexicographic
\* order of their positions
RECURSIVE Combinations(_, _)
Combinations(s, r) ==
  IF r = 0 THEN << <<>> >>
  ELSE IF Len(s) < r THEN <<>>
  ELSE LET with == Combinations(Tail(s), r - 1)
       IN  [j \in DOMAIN with |-> <<Head(s)>> \o with[j]]
             \o Combinations(Tail(s), r)

\* a slip of line 72 / 125: intermediate_set = all_sets[item]
AssignStep(intermediate_set, s) == s

\* line 72 / 125: intermediate_set = intermediate_set.intersection(all_sets[item])
IntersectStep(intermediate_set, s) == intermediate_set \cap s

\* lines 70-72 / 123-125: intermediate_set starts as set() and is intersected
\* with the subject set of every item of the combination
RECURSIVE IntermediateSet(_, _, _)
IntermediateSet(intermediate_set, ele, sets) ==
  IF ele = <<>> THEN intermediate_set
  ELSE IntermediateSet(IntersectStep(intermediate_set, sets[Head(ele)]),
                       Tail(ele), sets)

\* lines 67-74 / 120-127: Y is the union of the intermediate sets
ConsensusY(ids, sets, r) ==
  LET combos == Combinations(ids, r)
  IN  UNION {IntermediateSet({}, combos[c], sets) : c \in DOMAIN combos}

\* line 76: pd.concat([df[df.person_id.isin(Y)] for df in ...]).drop_duplicates()
FullDf(dfs, S) ==
  DropDuplicates(Concat([j \in DOMAIN dfs |-> IsIn(dfs[j], S)]))

\* ------------------------------------------------------------ the metrics
\* a slip of lines 29-30: the two totals exchanged
DemographicParityDiffSwapped(phenotype, m_total, w_total) ==
  RatSub(Norm(Count(phenotype, Women), m_total),
         Norm(Count(phenotype, Men), w_total))

\* lines 29-34: class_1_prop_outcome - class_0_prop_outcome
DemographicParityDiff(phenotype, m_total, w_total) ==
  RatSub(Norm(Count(phenotype, Women), w_total),
         Norm(Count(phenotype, Men), m_total))

\* lines 83-90: class_1_eqq_opp - class_0_eqq_opp
EqualityOfOpportunityDiff(phenotype, S, full) ==
  RatSub(Norm(CountIn(phenotype, Women, S), Count(full, Women)),
         Norm(CountIn(phenotype, Men, S), Count(full, Men)))

\* lines 132-139: class_1_prp - class_0_prp
PredictiveRateParityDiff(phenotype, S) ==
  RatSub(Norm(CountIn(phenotype, Women, S), Count(phenotype, Women)),
         Norm(CountIn(phenotype, Men, S), Count(phenotype, Men)))

\* a slip of lines 133+135: the divisor of equality of opportunity pasted in
DenominatorOfFull(f, phenotype, full, g) == Count(full, g)

\* the divisor of lines 84+86 ("eo") or 133+135 ("prp") for class g
Denominator(f, phenotype, full, g) ==
  IF f = "eo" THEN Count(full, g) ELSE Count(phenotype, g)

\* ----------------------------------------------------------------- inputs
\* the dataframes of a call: a row sequence cut into consecutive frames
RowSeqs == UNION {[1..t -> Rows] : t \in 0..MaxRows}

RECURSIVE Sum(_)
Sum(s) == IF s = <<>> THEN 0 ELSE Head(s) + Sum(Tail(s))

RECURSIVE Offset(_, _)
Offset(sizes, j) == IF j = 1 THEN 0 ELSE sizes[j - 1] + Offset(sizes, j - 1)

Split(flat, sizes) ==
  [j \in DOMAIN sizes |->
     SubSeq(flat, Offset(sizes, j) + 1, Offset(sizes, j) + sizes[j])]

FrameLists ==
  UNION {{Split(flat, sizes) :
            sizes \in {z \in [1..n -> 0..Len(flat)] : Sum(z) = Len(flat)}} :
         n \in 0..MaxN, flat \in RowSeqs}

IdLists == UNION {[1..n -> CohortIds] : n \in 0..MaxN}

\* the arguments drawn from the bounded sets
BoundedCall ==
  /\ fn \in {"dp", "eo", "prp"}
  /\ list_of_dataframes \in FrameLists
  /\ IF fn = "dp"
       THEN /\ cohort_definition_ids = <<>>
            /\ men_total \in 0..MaxTotal
            /\ women_total \in 0..MaxTotal
       ELSE /\ cohort_definition_ids \in IdLists
            /\ men_total = 0
            /\ women_total = 0

\* three cohorts 1, 2, 3 with the subjects {1,2,3}, {2,3,4}, {3,4,5}, every
\* frame also holding a row of a cohort that is not its own
CohortFrame(c, subjects) ==
  LET lo == CHOOSE p \in subjects : \A q \in subjects : p <= q
  IN  [k \in 1..4 |->
         IF k = 4 THEN Row(lo + 5, Men, c + 1)
         ELSE Row(lo + k - 1, IF k = 2 THEN Men ELSE Women, c)]

ThreeCohortsCall ==
  /\ fn \in {"eo", "prp"}
  /\ list_of_dataframes =
       <<CohortFrame(1, {1, 2, 3}), CohortFrame(2, {2, 3, 4}),
         CohortFrame(3, {3, 4, 5})>>
  /\ cohort_definition_ids \in {<<1, 2, 3>>, <<3, 1, 2>>, <<1, 2>>, <<1, 2, 3, 4>>}
  /\ men_total = 0
  /\ women_total = 0

\* one phenotype of 40 men and 60 women, out of 100 men and 200 women
LargeFrame == [k \in 1..100 |-> Row(k, IF k <= 40 THEN Men ELSE Women, 1)]

LargePhenotypeCall ==
  /\ fn = "dp"
  /\ list_of_dataframes = <<LargeFrame>>
  /\ cohort_definition_ids = <<>>
  /\ men_total = 100
  /\ women_total = 200

Init ==
  /\ BoundedCall \/ ThreeCohortsCall \/ LargePhenotypeCall
  /\ pc = IF fn = "dp" THEN "loop" ELSE "majority"
  /\ majority_count = 0
  /\ all_sets = EmptyDict
  /\ inds = <<>>
  /\ Y = {}
  /\ full_df = <<>>
  /\ idx = 1
  /\ diffs = <<>>
  /\ ret = NoResult

args == <<fn, list_of_dataframes, cohort_definition_ids, men_total, women_total>>

\* ---------------------------------------------------------------- actions
\* calculate_demographic_parity, lines 28-34: one iteration of the loop
DemographicParityStep ==
  /\ fn = "dp" /\ pc = "loop" /\ idx <= Len(list_of_dataframes)
  /\ IF men_total = 0 \/ women_total = 0
       THEN /\ pc' = "raised"
            /\ ret' = Raised("ZeroDivisionError")
            /\ UNCHANGED <<idx, diffs>>
       ELSE /\ diffs' = Append(diffs,
                 DemographicParityDiff(list_of_dataframes[idx], men_total, women_total))
            /\ idx' = idx + 1
            /\ UNCHANGED <<pc, ret>>
  /\ UNCHANGED <<args, majority_count, all_sets, inds, Y, full_df>>

\* lines 56-57 / 109-110
Majority ==
  /\ fn \in {"eo", "prp"} /\ pc = "majority"
  /\ majority_count' = MajorityCount(Len(list_of_dataframes))
  /\ pc' = "sets"
  /\ UNCHANGED <<args, all_sets, inds, Y, full_df, idx, diffs, ret>>

\* lines 59-64 / 112-117
BuildSets ==
  /\ pc = "sets"
  /\ LET pairs == Zip(list_of_dataframes, cohort_definition_ids)
     IN  /\ all_sets' = AllSets(pairs)
         /\ inds' = Inds(pairs)
  /\ pc' = "consensus"
  /\ UNCHANGED <<args, majority_count, Y, full_df, idx, diffs, ret>>

\* lines 67-74 / 120-127
BuildY ==
  /\ pc = "consensus"
  /\ Y' = ConsensusY(inds, all_sets, majority_count)
  /\ pc' = IF fn = "eo" THEN "full" ELSE "loop"
  /\ UNCHANGED <<args, majority_count, all_sets, inds, full_df, idx, diffs, ret>>

\* calculate_equality_of_opportunity, line 76: the name pd is looked up in the
\* module's globals; pd.concat of an empty list raises ValueError
BuildFull ==
  /\ pc = "full"
  /\ IF "pd" \notin ModuleGlobals
       THEN /\ pc' = "raised"
            /\ ret' = Raised("NameError")
            /\ UNCHANGED full_df
       ELSE IF list_of_dataframes = <<>>
       THEN /\ pc' = "raised"
            /\ ret' = Raised("ValueError")
            /\ UNCHANGED full_df
       ELSE /\ full_df' = FullDf(list_of_dataframes, Y)
            /\ pc' = "loop"
            /\ UNCHANGED ret
  /\ UNCHANGED <<args, majority_count, all_sets, inds, Y, idx, diffs>>

\* lines 82-90 / 131-139: one iteration of the loop
RateStep ==
  /\ fn \in {"eo", "prp"} /\ pc = "loop" /\ idx <= Len(list_of_dataframes)
  /\ LET phenotype == list_of_dataframes[idx]
     IN  IF \/ Denominator(fn, phenotype, full_df, Men) = 0
            \/ Denominator(fn, phenotype, full_df, Women) = 0
           THEN /\ pc' = "raised"
                /\ ret' = Raised("ZeroDivisionError")
                /\ UNCHANGED <<idx, diffs>>
           ELSE /\ diffs' = Append(diffs,
                     IF fn = "eo"
                       THEN EqualityOfOpportunityDiff(phenotype, Y, full_df)
                       ELSE PredictiveRateParityDiff(phenotype, Y))
                /\ idx' = idx + 1
                /\ UNCHANGED <<pc, ret>>
  /\ UNCHANGED <<args, majority_count, all_sets, inds, Y, full_df>>

\* a slip of lines 36 / 92 / 141: the return statement left out
ReturnNothing ==
  /\ pc = "loop" /\ idx > Len(list_of_dataframes)
  /\ ret' = [kind |-> "None", exc |-> "", val |-> <<>>]
  /\ pc' = "returned"
  /\ UNCHANGED <<args, majority_count, all_sets, inds, Y, full_df, idx, diffs>>

\* lines 36 / 92 / 141: return diffs
Return ==
  /\ pc = "loop" /\ idx > Len(list_of_dataframes)
  /\ ret' = Returned(diffs)
  /\ pc' = "returned"
  /\ UNCHANGED <<args, majority_count, all_sets, inds, Y, full_df, idx, diffs>>

Next ==
  \/ DemographicParityStep
  \/ Majority
  \/ BuildSets
  \/ BuildY
  \/ BuildFull
  \/ RateStep
  \/ Return

Spec == Init /\ [][Next]_vars

\* the call is over
Finished == pc \in {"raised", "returned"}


\* =================================================================== claims
N == Len(list_of_dataframes)

Consensus == fn \in {"eo", "prp"}

\* lines 67-74 / 120-127 have run
YBuilt == Consensus /\ pc \in {"full", "loop", "raised", "returned"}

Distinct(s) == \A i, j \in DOMAIN s : s[i] = s[j] => i = j

BothClasses(df) == Count(df, Men) > 0 /\ Count(df, Women) > 0

\* ceil(n / 2)
CeilHalf(n) == CHOOSE k \in 0..n : 2 * k >= n /\ 2 * (k - 1) < n

\* the majority-consensus set as specified: the union, over the coalitions of
\* exactly ceil(N/2) cohorts, of the intersection of their subject sets
MajorityConsensus(dfs, ids) ==
  LET n == Len(dfs)
      S(j) == SubjectSet(dfs[j], ids[j])
  IN  UNION {{x \in UNION {S(j) : j \in K} : \A j \in K : x \in S(j)} :
             K \in {K \in SUBSET (1..n) : Cardinality(K) = CeilHalf(n)}}

ThreeCohorts ==
  /\ N = 3
  /\ cohort_definition_ids = <<1, 2, 3>>
  /\ \A j \in 1..3 :
       SubjectSet(list_of_dataframes[j], j) = {j, j + 1, j + 2}

\* C1: for a non-empty list of N datasets paired with N distinct cohort
\* identifiers, the set Y both functions build is the union over the
\* ceil(N/2)-combinations of cohorts of the intersection of their subject sets;
\* for the subject sets {1,2,3}, {2,3,4}, {3,4,5} it is {2,3,4}, and for N = 1 it
\* is the sole cohort's subject set.
C1_ConsensusIsMajorityUnion ==
  (YBuilt /\ N >= 1 /\ Len(cohort_definition_ids) = N
     /\ Distinct(cohort_definition_ids))
  => /\ Y = MajorityConsensus(list_of_dataframes, cohort_definition_ids)
     /\ ThreeCohorts => Y = {2, 3, 4}
     /\ N = 1 => Y = SubjectSet(list_of_dataframes[1], cohort_definition_ids[1])

ValidInputs ==
  /\ N >= 1
  /\ \A i \in 1..N : BothClasses(list_of_dataframes[i])
  /\ IF fn = "dp"
       THEN men_total # 0 /\ women_total # 0
       ELSE /\ Len(cohort_definition_ids) = N
            /\ \A i \in 1..N :
                 SubjectSet(list_of_dataframes[i], cohort_definition_ids[i]) # {}

\* the difference the called function computes from one dataset
DiffOf(phenotype) ==
  IF fn = "dp" THEN DemographicParityDiff(phenotype, men_total, women_total)
  ELSE IF fn = "eo" THEN EqualityOfOpportunityDiff(phenotype, Y, full_df)
  ELSE PredictiveRateParityDiff(phenotype, Y)

\* C2: for valid inputs each of the three functions returns a list with one
\* entry per input dataset, entry i computed from dataset i.
C2_OneEntryPerDataset ==
  (Finished /\ ValidInputs)
  => /\ ret.kind = "list"
     /\ Len(ret.val) = N
     /\ \A i \in 1..N : ret.val[i] = DiffOf(list_of_dataframes[i])

\* C3: calculate_equality_of_opportunity returns, for each dataset, the rate of
\* class 1 minus the rate of class 0, a class's rate being its rows of the
\* dataset with person_id in the consensus set Y over its rows in full, the
\* de-duplicated union of the datasets' rows with person_id in Y.
C3_EqualityOfOpportunityRates ==
  LET SpecY == MajorityConsensus(list_of_dataframes, cohort_definition_ids)
      full == FullDf(list_of_dataframes, SpecY)
  IN  (fn = "eo" /\ Finished /\ N >= 1 /\ Len(cohort_definition_ids) = N
         /\ Distinct(cohort_definition_ids) /\ BothClasses(full))
      => /\ ret.kind = "list"
         /\ Len(ret.val) = N
         /\ \A i \in 1..N :
              ret.val[i] =
                RatSub(Norm(CountIn(list_of_dataframes[i], Women, SpecY),
                            Count(full, Women)),
                       Norm(CountIn(list_of_dataframes[i], Men, SpecY),
                            Count(full, Men)))

\* C4: calculate_predictive_rate_parity returns, for each dataset, the rate of
\* class 1 minus the rate of class 0, a class's rate being its rows of the
\* dataset with person_id in Y over its rows of that dataset, with Y the
\* majority-consensus set of the same datasets and cohort_ids.
C4_PredictiveRateParityRates ==
  LET SpecY == MajorityConsensus(list_of_dataframes, cohort_definition_ids)
  IN  (fn = "prp" /\ pc = "returned" /\ N >= 1
         /\ Len(cohort_definition_ids) = N /\ Distinct(cohort_definition_ids))
      => /\ Len(ret.val) = N
         /\ \A i \in 1..N :
              ret.val[i] =
                RatSub(Norm(CountIn(list_of_dataframes[i], Women, SpecY),
                            Count(list_of_dataframes[i], Women)),
                       Norm(CountIn(list_of_dataframes[i], Men, SpecY),
                            Count(list_of_dataframes[i], Men)))

\* every subject appears in every cohort, and no dataset repeats a row
FullOverlap ==
  LET population ==
        UNION {{list_of_dataframes[i][k].person_id :
                  k \in DOMAIN list_of_dataframes[i]} : i \in 1..N}
  IN  /\ N >= 1 /\ Len(cohort_definition_ids) = N
      /\ Distinct(cohort_definition_ids)
      /\ \A i \in 1..N :
           /\ SubjectSet(list_of_dataframes[i], cohort_definition_ids[i])
                = population
           /\ Distinct(list_of_dataframes[i])
           /\ BothClasses(list_of_dataframes[i])

\* C5: when every subject appears in every cohort and no dataset has duplicate
\* rows, calculate_equality_of_opportunity returns the list of differences
\* calculate_predictive_rate_parity returns for the same arguments.
C5_SameListOnFullOverlap ==
  (fn = "eo" /\ Finished /\ FullOverlap)
  => /\ ret.kind = "list"
     /\ ret.val = [i \in 1..N |->
                     PredictiveRateParityDiff(list_of_dataframes[i], Y)]

\* a divisor of the called function is zero
ZeroDenominator ==
  /\ N >= 1
  /\ IF fn = "dp" THEN men_total = 0 \/ women_total = 0
     ELSE IF fn = "eo"
       THEN LET full == FullDf(list_of_dataframes, Y)
            IN  Count(full, Men) = 0 \/ Count(full, Women) = 0
     ELSE \E i \in 1..N : ~BothClasses(list_of_dataframes[i])

\* C6: in each of the three functions, when a divisor is zero the call fails
\* with a division error at that division and returns no list, neither a
\* partial one nor one with an inf/NaN entry.
C6_ZeroDenominatorRaises ==
  (Finished /\ ZeroDenominator) => ret = Raised("ZeroDivisionError")

\* C7 as stated: with an empty datasets list the two consensus-based functions
\* fail with an error; they never complete normally and never return a list.
C7_EmptyInputFails ==
  (Consensus /\ N = 0 /\ Finished) => (ret.kind = "error" /\ pc # "returned")

\* C7 as amended: with an empty datasets list calculate_predictive_rate_parity
\* completes normally and returns the empty list, built on an empty Y, and
\* calculate_equality_of_opportunity returns no list: it ends in the NameError
\* of line 76, after the consensus set was built.
C7_EmptyInputOutcome ==
  (Consensus /\ N = 0)
  => /\ YBuilt => Y = {} /\ majority_count = 0
     /\ Finished => IF fn = "prp" THEN ret = Returned(<<>>)
                    ELSE ret = Raised("NameError")

C7_Witness == fn = "prp" /\ N = 0 /\ pc = "returned" /\ ret = Returned(<<>>)

Mismatch == Consensus /\ Len(cohort_definition_ids) # N

\* C8 as stated: with datasets and cohort_ids of different lengths the two
\* consensus-based functions fail with an error and return no list.
C8_LengthMismatchFails ==
  (Mismatch /\ Finished) => ret.kind = "error"

\* C8 as amended: with datasets and cohort_ids of different lengths no shape
\* error is raised: the pairing is cut to the shorter of the two and the
\* consensus set is built from it; calculate_predictive_rate_parity then
\* returns one difference per dataset when every dataset has rows of both
\* classes and fails with a division error otherwise, and
\* calculate_equality_of_opportunity ends in the NameError of line 76.
C8_LengthMismatchOutcome ==
  Mismatch
  => /\ pc \notin {"majority", "sets"}
          => inds = SubSeq(cohort_definition_ids, 1,
                           Min(N, Len(cohort_definition_ids)))
     /\ Finished
          => IF fn = "eo" THEN ret = Raised("NameError")
             ELSE IF \A i \in 1..N : BothClasses(list_of_dataframes[i])
               THEN ret.kind = "list" /\ Len(ret.val) = N
               ELSE ret = Raised("ZeroDivisionError")

C8_Witness ==
  /\ fn = "prp" /\ Mismatch /\ N >= 1 /\ cohort_definition_ids # <<>>
  /\ pc = "returned" /\ ret.kind = "list" /\ Len(ret.val) = N

Perms(n) == {p \in [1..n -> 1..n] : \A i, j \in 1..n : p[i] = p[j] => i = j}

Permute(s, p) == [j \in DOMAIN s |-> s[p[j]]]

\* lines 56-74 / 109-127 on the arguments dfs, ids
ConsensusOf(dfs, ids) ==
  LET pairs == Zip(dfs, ids)
  IN  ConsensusY(Inds(pairs), AllSets(pairs), MajorityCount(Len(dfs)))

\* C9: the consensus set Y is the same for every reordering of the
\* (dataset, cohort_id) pairs that keeps each dataset with its identifier.
C9_PermutationInvariant ==
  (YBuilt /\ Len(cohort_definition_ids) = N)
  => \A p \in Perms(N) :
       ConsensusOf(Permute(list_of_dataframes, p),
                   Permute(cohort_definition_ids, p)) = Y

C9_Witness ==
  /\ YBuilt /\ ThreeCohorts
  /\ ConsensusOf(Permute(list_of_dataframes, <<3, 1, 2>>),
                 Permute(cohort_definition_ids, <<3, 1, 2>>)) = Y

\* C10: with non-zero totals calculate_demographic_parity returns, for each
\* dataset, (rows of class 1) / women_total - (rows of class 0) / men_total with
\* the same two totals for every dataset: positive exactly when class 1 has the
\* higher rate, negative exactly when class 0 has, and 0 for a dataset with no
\* row of either class; 40 of 100 men and 60 of 200 women give -1/10.
C10_DemographicParityValue ==
  (fn = "dp" /\ Finished /\ men_total # 0 /\ women_total # 0)
  => /\ ret.kind = "list"
     /\ Len(ret.val) = N
     /\ \A i \in 1..N :
          LET c0 == Count(list_of_dataframes[i], Men)
              c1 == Count(list_of_dataframes[i], Women)
              d == ret.val[i]
          IN  /\ d[2] > 0
              /\ d[1] * women_total * men_total
                   = d[2] * (c1 * men_total - c0 * women_total)
              /\ d[1] > 0 <=> c1 * men_total > c0 * women_total
              /\ d[1] < 0 <=> c1 * men_total < c0 * women_total
              /\ (c0 = 0 /\ c1 = 0) => d = <<0, 1>>
     /\ (list_of_dataframes = <<LargeFrame>> /\ men_total = 100
           /\ women_total = 200) => ret.val = << <<-1, 10>> >>

C10_Witness ==
  /\ fn = "dp" /\ pc = "returned" /\ list_of_dataframes = <<LargeFrame>>
  /\ ret = Returned(<< <<-1, 10>> >>)

====
